---- MODULE Spec2Model ----
(***************************************************************************)
(* A model of oglelib: the file grabber (filegrabber.py: archive paths,    *)
(* the local cache, FTP retrieval with reconnect-and-retry, save) and the  *)
(* analysis functions (calculations.py: Lightcurve.mag, pgram,             *)
(* reduced_chi_square).                                                    *)
(*                                                                         *)
(* Strings are sequences of one-character strings (a multi-character       *)
(* string stands for a fixed literal of the templates), so that padding,   *)
(* lower-casing, stripping and templating are computed as the code         *)
(* computes them.                                                          *)
(***************************************************************************)
EXTENDS Integers, Sequences, FiniteSets, TLC

VARIABLES
    datadir,    \* FileGrabber.datadir after __verify_datadir
    ftpclient,  \* state of FileGrabber.ftpclient: absent, ready, closed, connected
    fs,         \* the local files: path -> content (DOMAIN fs = existing files)
    call,       \* the current (or last finished) call on the FileGrabber
    pc,         \* position inside the call
    dt,         \* the dat_type get_datfile is working on
    frames,     \* get_contents frames on the stack
    ftplog,     \* operations issued on the FTP handle during the call
    result,     \* what the finished call returned or raised
    printed,    \* lines printed by save during the call
    written,    \* paths written by __force_write during the call
    startEmpty, \* no cache file existed when the call started
    prev,       \* the preceding call, when it was a completed save on an empty cache
    fn,         \* pure-function runs: the function applied
    arg,        \* its input
    ret         \* its outcome

vars == <<datadir, ftpclient, fs, call, pc, dt, frames, ftplog, result,
          printed, written, startEmpty, prev, fn, arg, ret>>

grabber == <<datadir, ftpclient, fs, call, pc, dt, frames, ftplog, result,
             printed, written, startEmpty, prev>>

pure == <<fn, arg, ret>>

(***************************************************************************)
(* Bounds of the model.                                                    *)
(***************************************************************************)
\* transient failures one get_contents call may meet
MaxRetries == 2

(***************************************************************************)
(* Strings.                                                                *)
(***************************************************************************)
Whitespace == {"\n", " "}

RECURSIVE lstrip(_)
lstrip(s) ==
    IF s # <<>> /\ Head(s) \in Whitespace THEN lstrip(Tail(s)) ELSE s

RECURSIVE rstrip(_)
rstrip(s) ==
    IF s # <<>> /\ s[Len(s)] \in Whitespace
    THEN rstrip(SubSeq(s, 1, Len(s) - 1))
    ELSE s

\* str.strip()
strip(s) == rstrip(lstrip(s))

DigitChar(d) ==
    CASE d = 0 -> "0" [] d = 1 -> "1" [] d = 2 -> "2" [] d = 3 -> "3"
      [] d = 4 -> "4" [] d = 5 -> "5" [] d = 6 -> "6" [] d = 7 -> "7"
      [] d = 8 -> "8" [] d = 9 -> "9"

\* str(n) for an integer n >= 0
RECURSIVE str(_)
str(n) ==
    IF n < 10 THEN <<DigitChar(n)>>
    ELSE Append(str(n \div 10), DigitChar(n % 10))

\* str.zfill(width)
RECURSIVE zfill(_, _)
zfill(s, width) ==
    IF Len(s) >= width THEN s ELSE zfill(<<"0">> \o s, width)

LowerChar(c) ==
    CASE c = "B" -> "b" [] c = "L" -> "l" [] c = "G" -> "g"
      [] c = "M" -> "m" [] c = "C" -> "c" [] c = "S" -> "s"
      [] OTHER -> c

\* str.lower()
str_lower(s) == [i \in 1..Len(s) |-> LowerChar(s[i])]

(***************************************************************************)
(* Archive generation and zero padding (filegrabber.py).                   *)
(***************************************************************************)
UnsupportedYear == "Unsupported year."

\* get_ogle_version with a fault: the gap year 2001 falls into generation 3
get_ogle_version_gap(year) ==
    IF 1998 <= year /\ year <= 2000 THEN 2
    ELSE IF 2000 < year /\ year <= 2009 THEN 3
    ELSE IF 2011 <= year /\ year <= 2019 THEN 4
    ELSE 0

\* the generation of a year, or 0 where the code raises 'Unsupported year.'
get_ogle_version(year) ==
    IF 1998 <= year /\ year <= 2000 THEN 2
    ELSE IF 2002 <= year /\ year <= 2009 THEN 3
    ELSE IF 2011 <= year /\ year <= 2019 THEN 4
    ELSE 0

nwidth(version) ==
    IF version = 4 THEN 4
    ELSE IF version = 3 THEN 3
    ELSE 2

\* [ok |-> TRUE, s |-> the padded number] or the raise of get_ogle_version
padded_n(n, year) ==
    LET version == get_ogle_version(year) IN
    IF version = 0 THEN [ok |-> FALSE, s |-> <<>>]
    ELSE [ok |-> TRUE, s |-> zfill(str(n), nwidth(version))]

ftp_url == <<"ftp.astrouw.edu.pl">>

\* filepath_temp.substitute(...): the field as given, the number padded
ftp_filepath(year, n, field, dat_type) ==
    <<"/ogle/ogle">> \o str(get_ogle_version(year)) \o <<"/ews/">> \o str(year)
        \o <<"/">> \o field \o <<"-">> \o padded_n(n, year).s \o <<"/">>
        \o <<dat_type>> \o <<".dat">>

ftp_fileurl(filepath) == <<"ftp://">> \o ftp_url \o filepath

\* local_filepath_temp.substitute(...): the field lower-cased
get_local_filepath(dir, year, n, field, dat_type) ==
    dir \o <<"/">> \o str(year) \o <<"/">> \o str_lower(field) \o <<"-">>
        \o padded_n(n, year).s \o <<"/">> \o <<dat_type>> \o <<".dat">>

(***************************************************************************)
(* FileGrabber construction.                                               *)
(***************************************************************************)
NoDir == [some |-> FALSE, path |-> <<>>]
Dir(p) == [some |-> TRUE, path |-> p]

\* directories that exist on the local filesystem
ExistingDirs == {<<"/", "d">>, <<"/", "d", "/">>, <<"/">>}
\* datadir arguments tried, and values of OGLEDATADIR
DatadirArgs == {NoDir, Dir(<<"/", "d">>), Dir(<<"/", "d", "/">>), Dir(<<"/", "x">>)}
Environ == {NoDir, Dir(<<"/", "d">>)}

\* [ok, dir]: the datadir kept, or the raise of 'Invalid data directory.'
verify_datadir(d, environ) ==
    IF ~d.some THEN [ok |-> TRUE, dir |-> environ]
    ELSE IF d.path \in ExistingDirs
         THEN IF d.path[Len(d.path)] = "/"
              THEN [ok |-> TRUE, dir |-> Dir(<<d.path[Len(d.path)]>>)]
              ELSE [ok |-> TRUE, dir |-> d]
         ELSE [ok |-> FALSE, dir |-> NoDir]

(***************************************************************************)
(* Inputs of the calls.                                                    *)
(***************************************************************************)
Years == {2001, 2015}
Numbers == {7}
Fields == {<<"b", "l", "g">>, <<"B", "L", "G">>}
DatTypes == <<"phot", "params">>
DatTypeSet == {"phot", "params"}

\* cache paths the calls can name under a data directory
PathsOf(d) ==
    IF ~d.some THEN {}
    ELSE {get_local_filepath(d.path, y, n, f, t) :
            y \in {yy \in Years : get_ogle_version(yy) # 0},
            n \in Numbers, f \in Fields, t \in DatTypeSet}

\* contents of cache files present before the first call
InitialFileContents == {<<"a">>, <<"a", "\n">>}

\* documents the server may send: sequences of lines
RemoteDocs == {<< <<"a">> >>, << <<"a">>, <<"b">> >>}

\* reply codes of permanent failures
PermCodes == {550, 530, 553}

(***************************************************************************)
(* DatStream: retrlines calls write once per line; getvalue strips.        *)
(***************************************************************************)
DatStream_write(stream, s) == stream \o s \o <<"\n">>

RECURSIVE retrlines_into(_, _)
retrlines_into(stream, lines) ==
    IF lines = <<>> THEN stream
    ELSE retrlines_into(DatStream_write(stream, Head(lines)), Tail(lines))

DatStream_getvalue(stream) == strip(stream)

(***************************************************************************)
(* Outcomes of a call.                                                     *)
(***************************************************************************)
NoResult == [kind |-> "none", fileurl |-> <<>>, contents |-> <<>>, err |-> ""]
Raise(e) == [kind |-> "error", fileurl |-> <<>>, contents |-> <<>>, err |-> e]
Returned == [kind |-> "returned", fileurl |-> <<>>, contents |-> <<>>, err |-> ""]

\* DatFile(fileurl, filecontents)
DatFile(fileurl, filecontents) ==
    [kind |-> "DatFile", fileurl |-> fileurl, contents |-> strip(filecontents),
     err |-> ""]

NoCall == [op |-> "none", year |-> 0, n |-> 0, field |-> <<>>, dat_type |-> ""]
NoPrev == [some |-> FALSE, year |-> 0, n |-> 0, field |-> <<>>,
           printed |-> <<>>, fs |-> <<>>]

LogEntry(op, path, outcome, code, data) ==
    [op |-> op, path |-> path, outcome |-> outcome, code |-> code, data |-> data]
(***************************************************************************)
(* RemoteDatFile.get_contents, step by step.  Every retrlines raises or    *)
(* returns as the server decides; a transient failure pushes a new frame   *)
(* (the recursive call made inside the except clause).                     *)
(***************************************************************************)
InvalidUrl == "url: {} is invalid"
FtpNotEnabled == "ftp is not enabled"
UnboundLocalError == "UnboundLocalError"
AttributeError == "AttributeError"
NoDataDirectory == "No data directory provided."

\* the except error_perm clause: the exception it ends with
error_perm_raise(err_code) ==
    IF err_code = 550 THEN Raise(InvalidUrl)
    ELSE IF err_code = 530 THEN Raise(FtpNotEnabled)
    ELSE Raise(UnboundLocalError)      \* raise Exception(msg) with msg unbound

\* what the outermost get_contents gives its caller once a retrlines, made
\* in the innermost of nframes frames, has succeeded with filecontents: the
\* frames above the innermost discard the value of the recursive call and
\* reach return(filecontents) with filecontents unbound
get_contents_return(nframes, fileurl, filecontents) ==
    IF nframes = 1 THEN DatFile(fileurl, filecontents)
    ELSE Raise(UnboundLocalError)

\* ReloadNext with a fault: the retry is issued without login
ReloadNext_nologin(at) ==
    CASE at = "close" -> "connect"
      [] at = "connect" -> "retr"
      [] at = "login" -> "retr"

\* the reload of the ftp client in the except clause, in program order
ReloadNext(at) ==
    CASE at = "close" -> "connect"
      [] at = "connect" -> "login"
      [] at = "login" -> "retr"

\* cache_hit with a fault: the cache is never consulted
cache_hit_never(dir, files, filepath) == FALSE

\* get_datfile's test for the cached file: a data directory is configured
\* and os.path.isfile(local_filepath)
cache_hit(dir, files, filepath) == dir.some /\ filepath \in DOMAIN files

\* force_write_outcome with a fault: always reports a write
force_write_outcome_always(files, filepath) == 1

\* __force_write: 0 when the file exists (nothing written), else 1; the
\* directories os.makedirs creates are not part of the model
force_write_outcome(files, filepath) ==
    IF filepath \in DOMAIN files THEN 0 ELSE 1

force_write_fs(files, filepath, s) ==
    IF filepath \in DOMAIN files THEN files
    ELSE [q \in DOMAIN files \cup {filepath} |->
             IF q = filepath THEN s ELSE files[q]]

ReportWord(outcome) == IF outcome = 0 THEN "exists" ELSE "saved"

CurPath == get_local_filepath(datadir.path, call.year, call.n, call.field, dt)
CurRemote == ftp_filepath(call.year, call.n, call.field, dt)
CurUrl == ftp_fileurl(CurRemote)

\* get_datfile ends with r: a direct call is over; save goes on with
\* __force_write and the next dat_type, or is aborted by the exception
Finish(r) ==
    IF call.op = "get_datfile" \/ r.kind = "error"
    THEN /\ result' = r
         /\ pc' = "idle"
         /\ UNCHANGED <<fs, dt, printed, written>>
    ELSE LET outcome == force_write_outcome(fs, CurPath) IN
         /\ fs' = force_write_fs(fs, CurPath, r.contents)
         /\ written' = IF outcome = 1 THEN written \cup {CurPath} ELSE written
         /\ printed' = Append(printed,
                              [path |-> CurPath, word |-> ReportWord(outcome)])
         /\ IF dt = DatTypes[1]
            THEN /\ dt' = DatTypes[2]
                 /\ pc' = "get_datfile"
                 /\ result' = result
            ELSE /\ dt' = dt
                 /\ pc' = "idle"
                 /\ result' = Returned

\* the call that has just finished, kept when it was a save that completed
\* on a cache that was empty when it started
Remember ==
    IF call.op = "save" /\ result.kind = "returned" /\ startEmpty
    THEN [some |-> TRUE, year |-> call.year, n |-> call.n, field |-> call.field,
          printed |-> printed, fs |-> fs]
    ELSE NoPrev

StartCall(c) ==
    /\ pc = "idle"
    /\ call' = c
    /\ prev' = Remember
    /\ startEmpty' = (DOMAIN fs = {})
    /\ ftplog' = <<>>
    /\ printed' = <<>>
    /\ written' = {}
    /\ frames' = 0

\* a caller invokes FileGrabber.get_datfile(year, n, field, dat_type)
CallGetDatfile ==
    \E y \in Years, n \in Numbers, f \in Fields, t \in DatTypeSet :
        /\ StartCall([op |-> "get_datfile", year |-> y, n |-> n, field |-> f,
                      dat_type |-> t])
        /\ dt' = t
        /\ pc' = "get_datfile"
        /\ result' = NoResult
        /\ UNCHANGED <<datadir, ftpclient, fs, pure>>

\* a caller invokes FileGrabber.save(year, n, field); without a data
\* directory it raises at once
CallSave ==
    \E y \in Years, n \in Numbers, f \in Fields :
        /\ StartCall([op |-> "save", year |-> y, n |-> n, field |-> f,
                      dat_type |-> ""])
        /\ dt' = DatTypes[1]
        /\ IF datadir.some
           THEN pc' = "get_datfile" /\ result' = NoResult
           ELSE pc' = "idle" /\ result' = Raise(NoDataDirectory)
        /\ UNCHANGED <<datadir, ftpclient, fs, pure>>

\* get_datfile up to the first retrlines: the RemoteDatFile, the cache
GetDatfile ==
    /\ pc = "get_datfile"
    /\ UNCHANGED <<datadir, ftpclient, call, ftplog, startEmpty, prev, pure>>
    /\ IF ~padded_n(call.n, call.year).ok
       THEN Finish(Raise(UnsupportedYear)) /\ frames' = frames
       ELSE IF cache_hit(datadir, fs, CurPath)
       THEN Finish(DatFile(CurUrl, fs[CurPath])) /\ frames' = frames
       ELSE IF ftpclient = "absent"
       THEN Finish(Raise(AttributeError)) /\ frames' = frames
       ELSE /\ pc' = "retr"
            /\ frames' = 1
            /\ UNCHANGED <<fs, dt, result, printed, written>>

\* ftp.retrlines(cmd, stream.write) on a usable handle
Retrlines ==
    /\ pc = "retr" /\ ftpclient = "ready"
    /\ UNCHANGED <<datadir, ftpclient, call, startEmpty, prev, pure>>
    /\ \/ \E doc \in RemoteDocs :
            LET filecontents == DatStream_getvalue(retrlines_into(<<>>, doc)) IN
            /\ ftplog' = Append(ftplog,
                                LogEntry("RETR", CurRemote, "ok", 0, filecontents))
            /\ Finish(get_contents_return(frames, CurUrl, filecontents))
            /\ frames' = frames
       \/ \E code \in PermCodes :
            /\ ftplog' = Append(ftplog,
                                LogEntry("RETR", CurRemote, "error_perm", code, <<>>))
            /\ Finish(error_perm_raise(code))
            /\ frames' = frames
       \/ \E e \in {"error_temp", "BrokenPipeError"} :
            /\ frames <= MaxRetries
            /\ ftplog' = Append(ftplog, LogEntry("RETR", CurRemote, e, 0, <<>>))
            /\ pc' = "close"
            /\ frames' = frames + 1
            /\ UNCHANGED <<fs, dt, result, printed, written>>

\* ftp.retrlines on a handle an earlier failed reload left unusable
RetrlinesUnusable ==
    /\ pc = "retr" /\ ftpclient \in {"closed", "connected"}
    /\ UNCHANGED <<datadir, ftpclient, call, frames, startEmpty, prev, pure>>
    /\ IF ftpclient = "closed"
       THEN /\ ftplog' = Append(ftplog,
                                LogEntry("RETR", CurRemote, AttributeError, 0, <<>>))
            /\ Finish(Raise(AttributeError))
       ELSE /\ ftplog' = Append(ftplog,
                                LogEntry("RETR", CurRemote, "error_perm", 530, <<>>))
            /\ Finish(error_perm_raise(530))

\* ftp.close()
Close ==
    /\ pc = "close"
    /\ ftplog' = Append(ftplog, LogEntry("close", <<>>, "ok", 0, <<>>))
    /\ ftpclient' = "closed"
    /\ pc' = ReloadNext(pc)
    /\ UNCHANGED <<datadir, fs, call, dt, frames, result, printed, written,
                   startEmpty, prev, pure>>

\* ftp.connect(ftp_url)
Connect ==
    /\ pc = "connect"
    /\ UNCHANGED <<datadir, call, frames, startEmpty, prev, pure>>
    /\ \/ /\ ftplog' = Append(ftplog, LogEntry("connect", ftp_url, "ok", 0, <<>>))
          /\ ftpclient' = "connected"
          /\ pc' = ReloadNext(pc)
          /\ UNCHANGED <<fs, dt, result, printed, written>>
       \/ /\ ftplog' = Append(ftplog,
                              LogEntry("connect", ftp_url, "OSError", 0, <<>>))
          /\ ftpclient' = ftpclient
          /\ Finish(Raise("OSError"))

\* ftp.login()
Login ==
    /\ pc = "login"
    /\ UNCHANGED <<datadir, call, frames, startEmpty, prev, pure>>
    /\ \/ /\ ftplog' = Append(ftplog, LogEntry("login", <<>>, "ok", 0, <<>>))
          /\ ftpclient' = "ready"
          /\ pc' = ReloadNext(pc)
          /\ UNCHANGED <<fs, dt, result, printed, written>>
       \/ \E e \in {"error_perm", "error_temp"} :
          /\ ftplog' = Append(ftplog, LogEntry("login", <<>>, e, 0, <<>>))
          /\ ftpclient' = ftpclient
          /\ Finish(Raise(e))

NoPure == [f |-> "none"]

\* FileGrabber(datadir, ftp_enabled) constructed without raising
Init ==
    /\ \E d \in DatadirArgs, e \in Environ :
          /\ verify_datadir(d, e).ok
          /\ datadir = verify_datadir(d, e).dir
    /\ ftpclient \in {"absent", "ready"}
    /\ fs \in UNION {[S -> InitialFileContents] : S \in SUBSET PathsOf(datadir)}
    /\ call = NoCall
    /\ pc = "idle"
    /\ dt = ""
    /\ frames = 0
    /\ ftplog = <<>>
    /\ result = NoResult
    /\ printed = <<>>
    /\ written = {}
    /\ startEmpty = FALSE
    /\ prev = NoPrev
    /\ fn = "none" /\ arg = NoPure /\ ret = NoPure

Next ==
    \/ CallGetDatfile
    \/ CallSave
    \/ GetDatfile
    \/ Retrlines
    \/ RetrlinesUnusable
    \/ Close
    \/ Connect
    \/ Login

Spec == Init /\ [][Next]_vars
(***************************************************************************)
(* get_ogle_version and padded_n applied to years and event numbers.       *)
(***************************************************************************)
LocYears == 1995..2022
LocNumbers == {1, 9, 10, 99, 100, 999, 1000, 9999, 10000, 12345}

InitGrabberIdle ==
    /\ datadir = NoDir
    /\ ftpclient = "absent"
    /\ fs = <<>>
    /\ call = NoCall
    /\ pc = "idle"
    /\ dt = ""
    /\ frames = 0
    /\ ftplog = <<>>
    /\ result = NoResult
    /\ printed = <<>>
    /\ written = {}
    /\ startEmpty = FALSE
    /\ prev = NoPrev

InitPure ==
    /\ InitGrabberIdle
    /\ fn = "none" /\ arg = NoPure /\ ret = NoPure

Apply_get_ogle_version ==
    \E year \in LocYears :
        /\ fn = "none"
        /\ fn' = "get_ogle_version"
        /\ arg' = [year |-> year]
        /\ ret' = [version |-> get_ogle_version(year)]
        /\ UNCHANGED grabber

Apply_padded_n ==
    \E n \in LocNumbers, year \in LocYears :
        /\ fn = "none"
        /\ fn' = "padded_n"
        /\ arg' = [n |-> n, year |-> year]
        /\ ret' = padded_n(n, year)
        /\ UNCHANGED grabber

NextLocator == Apply_get_ogle_version \/ Apply_padded_n

SpecLocator == InitPure /\ [][NextLocator]_vars

(***************************************************************************)
(* calculations.py.  Floating-point numbers are modelled by exact          *)
(* rationals [n, d] with d > 0, compared and combined by cross             *)
(* multiplication; square roots and logarithms are never evaluated, only   *)
(* the conditions under which the code's operations raise.                 *)
(***************************************************************************)
Rat(n, d) == [n |-> n, d |-> d]
RatAdd(a, b) == Rat(a.n * b.d + b.n * a.d, a.d * b.d)
RatMul(a, b) == Rat(a.n * b.n, a.d * b.d)
RatLess(a, b) == a.n * b.d < b.n * a.d
RatLeq(a, b) == a.n * b.d <= b.n * a.d

\* validate_fbl with a fault: the blending fraction is kept as given
validate_fbl_unclamped(fbl) == fbl

\* Lightcurve.__validate_fbl
validate_fbl(fbl) ==
    IF RatLess(Rat(1, 1), fbl) THEN Rat(1, 1)
    ELSE IF RatLess(fbl, Rat(0, 1)) THEN Rat(0, 1)
    ELSE fbl

\* Lightcurve.__init__(params)
Lightcurve(params) ==
    [Ibl |-> params.I_bl, umin |-> params.umin, tE |-> params.tau,
     t0 |-> params.Tmax, fbl |-> validate_fbl(params.fbl)]

\* u**2 in Lightcurve.mag: umin**2 + ((t - t0) / tE)**2, for tE # 0
mag_u2(lc, t) ==
    RatAdd(RatMul(lc.umin, lc.umin),
           Rat((t - lc.t0) * (t - lc.t0), lc.tE * lc.tE))

\* the square of the unblended flux ratio (u**2 + 2) / (u * sqrt(u**2 + 4)),
\* for u2 # 0
mag_ratio_sq(u2) ==
    Rat((u2.n + 2 * u2.d) * (u2.n + 2 * u2.d), u2.n * (u2.n + 4 * u2.d))

\* whether (flux_ratio - 1) * fbl + 1 > 0, the domain of log10, for a
\* flux ratio > 0 whose square is asq
mag_log_defined(asq, fbl) ==
    IF fbl.n = 0 THEN TRUE
    ELSE IF fbl.n > 0
         THEN \* flux_ratio > 1 - 1/fbl
              \/ fbl.n - fbl.d <= 0
              \/ RatLess(Rat((fbl.n - fbl.d) * (fbl.n - fbl.d), fbl.n * fbl.n), asq)
         ELSE \* flux_ratio < 1 + 1/|fbl|
              RatLess(asq, Rat((fbl.d - fbl.n) * (fbl.d - fbl.n), fbl.n * fbl.n))

\* Lightcurve.mag(t): a float, or the exception an operation raises.  u is
\* sqrt(u2), zero exactly when u2 is; the division by u * sqrt(u**2 + 4)
\* raises ZeroDivisionError when u is zero; log10 raises ValueError outside
\* its domain
mag(lc, t) ==
    LET u2 == mag_u2(lc, t) IN
    IF u2.n = 0 THEN [kind |-> "ZeroDivisionError"]
    ELSE IF ~mag_log_defined(mag_ratio_sq(u2), lc.fbl)
         THEN [kind |-> "ValueError"]
         ELSE [kind |-> "float"]

\* parameter sets: I_bl, umin >= 0, tau > 0, Tmax, fbl (before clamping)
Umins == {Rat(0, 1), Rat(1, 2), Rat(1, 1)}
Taus == {1, 2}
Tmaxs == {3}
Fbls == {Rat(-1, 1), Rat(0, 1), Rat(1, 2), Rat(1, 1), Rat(2, 1)}
MagTimes == 1..5

Apply_mag ==
    \E umin \in Umins, tau \in Taus, Tmax \in Tmaxs, fbl \in Fbls, t \in MagTimes :
        LET params == [I_bl |-> 15, umin |-> umin, tau |-> tau, Tmax |-> Tmax,
                       fbl |-> fbl] IN
        /\ fn = "none"
        /\ fn' = "mag"
        /\ arg' = [params |-> params, t |-> t]
        /\ ret' = mag(Lightcurve(params), t)
        /\ UNCHANGED grabber

SpecMag == InitPure /\ [][Apply_mag]_vars

(***************************************************************************)
(* reduced_chi_square.                                                     *)
(***************************************************************************)
\* observations per call, and the largest Nu
MaxPoints == 2
MaxNu == 3

ChiTimes == {0, 1}
ChiMags == {0, 1, 2}
ChiErrs == {1, 2}
ChiPoints == ChiTimes \X {0, 2} \X ChiErrs
ChiData == UNION {[1..k -> ChiPoints] : k \in 0..MaxPoints}
\* model functions handed in as func
ChiFuncs == [ChiTimes -> ChiMags]
\* the number type of the data: Python floats, or numpy.float64 as built by
\* Event.datapoints
NumTypes == {"float", "float64"}

\* thesum after the first k datapoints
RECURSIVE chi_sum(_, _, _)
chi_sum(datapoints, func, k) ==
    IF k = 0 THEN Rat(0, 1)
    ELSE LET dp == datapoints[k]
             Oi == dp[2]
             sigma_i == dp[3]
             Ci == func[dp[1]]
             square_diff == (Oi - Ci) * (Oi - Ci)
             variance == sigma_i * sigma_i
         IN RatAdd(chi_sum(datapoints, func, k - 1), Rat(square_diff, variance))

\* round(x, 3) of the rational x, in thousandths (ties to even)
round3(x) ==
    LET m == 1000 * x.n
        fl == m \div x.d
        rem == m - fl * x.d
    IN IF 2 * rem < x.d THEN fl
       ELSE IF 2 * rem > x.d THEN fl + 1
       ELSE IF fl % 2 = 0 THEN fl ELSE fl + 1

\* reduced_chi_square(datapoints, func, Nu): the rounded value in
\* thousandths, or what the division by len(datapoints) - Nu = 0 gives: a
\* ZeroDivisionError for Python numbers, inf or nan for numpy.float64
reduced_chi_square(datapoints, func, Nu, numtype) ==
    LET thesum == chi_sum(datapoints, func, Len(datapoints))
        divisor == Len(datapoints) - Nu
    IN IF divisor = 0
       THEN IF numtype = "float64" /\ Len(datapoints) > 0
            THEN IF thesum.n = 0 THEN [kind |-> "nan", milli |-> 0]
                 ELSE [kind |-> "inf", milli |-> 0]
            ELSE [kind |-> "ZeroDivisionError", milli |-> 0]
       ELSE IF divisor > 0
            THEN [kind |-> "value",
                  milli |-> round3(Rat(thesum.n, thesum.d * divisor))]
            ELSE [kind |-> "value",
                  milli |-> round3(Rat(-thesum.n, thesum.d * (-divisor)))]

Apply_reduced_chi_square ==
    \E datapoints \in ChiData, func \in ChiFuncs, Nu \in 0..MaxNu,
       numtype \in NumTypes :
        /\ fn = "none"
        /\ fn' = "reduced_chi_square"
        /\ arg' = [datapoints |-> datapoints, func |-> func, Nu |-> Nu,
                   numtype |-> numtype]
        /\ ret' = reduced_chi_square(datapoints, func, Nu, numtype)
        /\ UNCHANGED grabber

SpecChiSquare == InitPure /\ [][Apply_reduced_chi_square]_vars

(***************************************************************************)
(* pgram: the peak of the power grid and its width.  The power grid that   *)
(* scipy's lombscargle returns is an input; frequencies are in units of    *)
(* 0.0001 / (GridLen - 1), so that the points of linspace are integers.    *)
(***************************************************************************)
\* points of the frequency grid (10000 in the code), and power levels
GridLen == 6
MaxPower == 3

\* np.linspace(0.0001, 0.03, ...) and the floor 0.01, in units of 0.0001
FreqLo == 1
FreqHi == 300
FreqFloor == 100

GridIndex == 0..(GridLen - 1)
PowerGrids == [GridIndex -> 0..MaxPower]

\* freq[i]
freq(i) == FreqLo * (GridLen - 1) + i * (FreqHi - FreqLo)

\* np.where(freq > 0.01)
above_floor == {i \in GridIndex : freq(i) > FreqFloor * (GridLen - 1)}

SetMax(S) == CHOOSE x \in S : \A y \in S : y <= x
SetMin(S) == CHOOSE x \in S : \A y \in S : x <= y

\* maxpgram = np.max(pgram[np.where(freq > 0.01)])
maxpgram_of(pgram) == SetMax({pgram[i] : i \in above_floor})

\* freq_at_maxgram = freq[np.where(np.max(pgram) == pgram)][0]
freq_at_maxgram_of(pgram) ==
    LET npmax == SetMax({pgram[i] : i \in GridIndex})
    IN freq(SetMin({i \in GridIndex : npmax = pgram[i]}))

\* the while loop of getfwhm, from its test on
RECURSIVE fwhm_walk(_, _, _, _, _, _, _, _)
fwhm_walk(pgram, maxpgram, i, j, lowflag, highflag, lower, higher) ==
    IF j > 0 /\ i < GridLen - 1
    THEN LET lowhit == 2 * pgram[j] >= maxpgram /\ 2 * pgram[j - 1] < maxpgram
                          /\ lowflag = 0
             lower1 == IF lowhit THEN freq(j - 1) ELSE lower
             lowflag1 == IF lowhit THEN 1 ELSE lowflag
             highhit == 2 * pgram[i] >= maxpgram /\ 2 * pgram[i + 1] < maxpgram
                           /\ highflag = 0
             higher1 == IF highhit THEN freq(i + 1) ELSE higher
             highflag1 == IF highhit THEN 1 ELSE highflag
         IN IF lowflag1 = 1 /\ highflag1 = 1
            THEN higher1 - lower1
            ELSE fwhm_walk(pgram, maxpgram, i + 1, j - 1, lowflag1, highflag1,
                           lower1, higher1)
    ELSE IF highflag = 0 \/ lowflag = 0 THEN 0 ELSE higher - lower

\* getfwhm()
getfwhm(pgram, maxpgram) ==
    LET i == SetMin({k \in GridIndex : pgram[k] = maxpgram})
    IN fwhm_walk(pgram, maxpgram, i, i, 0, 0, 0, 0)

\* pgram(tdata, Idata), from the power grid on: the values before rounding
pgram_result(pgram) ==
    [maxpgram |-> maxpgram_of(pgram),
     freq_at_maxpgram |-> freq_at_maxgram_of(pgram),
     fwhm |-> getfwhm(pgram, maxpgram_of(pgram))]

Apply_pgram ==
    \E pgram \in PowerGrids :
        /\ fn = "none"
        /\ fn' = "pgram"
        /\ arg' = [pgram |-> pgram]
        /\ ret' = pgram_result(pgram)
        /\ UNCHANGED grabber

SpecPgram == InitPure /\ [][Apply_pgram]_vars

(***************************************************************************)
(* The cache path of a FileGrabber built on an existing directory:         *)
(* __verify_datadir at construction, then __get_local_filepath, which      *)
(* get_datfile and save both call with the same arguments.                 *)
(***************************************************************************)
\* existing base directories, written without and with a trailing "/"
PathDirs == {d \in DatadirArgs : d.some /\ d.path \in ExistingDirs}
PathNumbers == {7, 12345}

Apply_get_local_filepath ==
    \E d \in PathDirs, e \in Environ, year \in LocYears, n \in PathNumbers,
       field \in Fields, dat_type \in DatTypeSet :
        /\ fn = "none"
        /\ fn' = "get_local_filepath"
        /\ arg' = [datadir |-> d.path, year |-> year, n |-> n, field |-> field,
                   dat_type |-> dat_type]
        /\ ret' = IF padded_n(n, year).ok
                  THEN [ok |-> TRUE,
                        path |-> get_local_filepath(verify_datadir(d, e).dir.path,
                                                    year, n, field, dat_type)]
                  ELSE [ok |-> FALSE, path |-> <<>>]
        /\ UNCHANGED grabber

SpecCachePath == InitPure /\ [][Apply_get_local_filepath]_vars

(***************************************************************************)
(* Properties of the file grabber, checked under Spec.                     *)
(***************************************************************************)
Done == pc = "idle" /\ call.op # "none"

IsRetr(e) == e.op = "RETR"
IsTransient(e) == IsRetr(e) /\ e.outcome \in {"error_temp", "BrokenPipeError"}
IsPermanent(e) == IsRetr(e) /\ e.outcome = "error_perm"

\* a direct get_datfile call has ended and its cache file exists (the call
\* writes no file, so the file existed when it was made)
CachedGetDatfile ==
    /\ Done /\ call.op = "get_datfile"
    /\ datadir.some
    /\ padded_n(call.n, call.year).ok
    /\ CurPath \in DOMAIN fs

\* C1 (as amended): with a data directory configured and the cache file
\* present at the computed local path, get_datfile returns a DatFile whose
\* contents are the file's content with leading and trailing whitespace
\* stripped, and issues no operation at all on the FTP handle.
C1_CachePrecedence ==
    CachedGetDatfile =>
        /\ result.kind = "DatFile"
        /\ result.contents = strip(fs[CurPath])
        /\ result.fileurl = CurUrl
        /\ ftplog = <<>>

\* C1 witness: a cache hit on a file that ends with a newline
C1_Witness ==
    /\ CachedGetDatfile
    /\ result.kind = "DatFile"
    /\ fs[CurPath] = <<"a", "\n">>
    /\ ftpclient = "ready"

\* C1 as stated: the content returned is the content read from the file
C1_Original ==
    CachedGetDatfile =>
        /\ result.kind = "DatFile"
        /\ result.contents = fs[CurPath]
        /\ ftplog = <<>>

\* C2 as stated: when a retrieve failed transiently and a later retry of the
\* same request succeeded, get_datfile returns the content the retry obtained.
C2_RetriedResultReturned ==
    (/\ Done /\ call.op = "get_datfile"
     /\ ftplog # <<>>
     /\ ftplog[Len(ftplog)].op = "RETR" /\ ftplog[Len(ftplog)].outcome = "ok"
     /\ \E i \in 1..Len(ftplog) : IsTransient(ftplog[i]))
    => /\ result.kind = "DatFile"
       /\ result.contents = ftplog[Len(ftplog)].data

\* C3 as stated: every permanent failure of a retrieve, whatever its reply
\* code, ends the call with a retrieval error whose message tells 'invalid
\* path' (550) from 'access disabled' (530), and nothing is issued on the
\* handle after it.
C3_PermanentTerminalDiagnosed ==
    \A i \in 1..Len(ftplog) :
        IsPermanent(ftplog[i]) =>
            /\ i = Len(ftplog)
            /\ Done
            /\ result.kind = "error"
            /\ result.err \in {InvalidUrl, FtpNotEnabled}
            /\ (ftplog[i].code = 550 => result.err = InvalidUrl)
            /\ (ftplog[i].code = 530 => result.err = FtpNotEnabled)

SamePaths(c) ==
    <<get_local_filepath(datadir.path, c.year, c.n, c.field, DatTypes[1]),
      get_local_filepath(datadir.path, c.year, c.n, c.field, DatTypes[2])>>

Reports(c, word) ==
    <<[path |-> SamePaths(c)[1], word |-> word],
      [path |-> SamePaths(c)[2], word |-> word]>>

\* a save has completed right after a completed save of the same event that
\* started on an empty cache
SecondSaveDone ==
    /\ Done /\ call.op = "save" /\ result.kind = "returned"
    /\ prev.some
    /\ prev.year = call.year /\ prev.n = call.n
    /\ str_lower(prev.field) = str_lower(call.field)

DigitVal(c) ==
    CASE c = "0" -> 0 [] c = "1" -> 1 [] c = "2" -> 2 [] c = "3" -> 3
      [] c = "4" -> 4 [] c = "5" -> 5 [] c = "6" -> 6 [] c = "7" -> 7
      [] c = "8" -> 8 [] c = "9" -> 9

\* the number a string of decimal digits denotes
RECURSIVE NumericValue(_)
NumericValue(s) ==
    IF s = <<>> THEN 0
    ELSE 10 * NumericValue(SubSeq(s, 1, Len(s) - 1)) + DigitVal(s[Len(s)])

NumDigits(n) ==
    IF n < 10 THEN 1 ELSE IF n < 100 THEN 2 ELSE IF n < 1000 THEN 3
    ELSE IF n < 10000 THEN 4 ELSE 5

\* the generation the claim gives a year, 0 for 'raises'
ClaimedVersion(year) ==
    IF year \in 1998..2000 THEN 2
    ELSE IF year \in 2002..2009 THEN 3
    ELSE IF year \in 2011..2019 THEN 4
    ELSE 0

ClaimedWidth(year) ==
    IF ClaimedVersion(year) = 2 THEN 2
    ELSE IF ClaimedVersion(year) = 3 THEN 3
    ELSE 4

MaxOf(a, b) == IF a >= b THEN a ELSE b

\* C5: get_ogle_version gives 2 for 1998..2000, 3 for 2002..2009, 4 for
\* 2011..2019 and raises for every other year (2001 and 2010 included);
\* padded_n raises for exactly those years, and otherwise gives a string of
\* decimal digits of length max(width, digits of n), width 2, 3, 4 for the
\* generations 2, 3, 4, whose numeric value is n.
C5_VersionAndPadding ==
    /\ fn = "get_ogle_version" => ret.version = ClaimedVersion(arg.year)
    /\ fn = "padded_n" =>
          /\ ret.ok = (ClaimedVersion(arg.year) # 0)
          /\ ret.ok =>
                /\ Len(ret.s) = MaxOf(ClaimedWidth(arg.year), NumDigits(arg.n))
                /\ \A i \in 1..Len(ret.s) :
                      ret.s[i] \in {"0", "1", "2", "3", "4", "5", "6", "7", "8", "9"}
                /\ NumericValue(ret.s) = arg.n

\* C5 witness: a number padded with zeros in the newest generation, after
\* which the gap year 2010 is refused
C5_Witness ==
    /\ fn = "padded_n"
    /\ arg.year = 2011 /\ arg.n = 99
    /\ ret.ok /\ ret.s = <<"0", "0", "9", "9">>
    /\ ~padded_n(1, 2010).ok
(***************************************************************************)
(* Properties of calculations.py, checked under SpecChiSquare (C6),        *)
(* SpecPgram (C7, C8) and SpecMag (C9).                                    *)
(***************************************************************************)
\* C6 as stated: with no more observations than Nu, reduced_chi_square fails
\* explicitly; it returns no value, infinite, negative or other.
C6_DegenerateFitFails ==
    (fn = "reduced_chi_square" /\ Len(arg.datapoints) <= arg.Nu)
        => ret.kind = "ZeroDivisionError"

PeakIndex(pgram, peak) == SetMin({k \in GridIndex : pgram[k] = peak})

\* C7 as stated: the peak power is the largest power above the floor, and the
\* peak frequency is the first frequency of the whole grid whose power equals
\* that peak power.
C7_PeakFrequencyAtPeakPower ==
    fn = "pgram" =>
        /\ ret.maxpgram \in {arg.pgram[i] : i \in above_floor}
        /\ \A i \in above_floor : arg.pgram[i] <= ret.maxpgram
        /\ ret.freq_at_maxpgram = freq(PeakIndex(arg.pgram, ret.maxpgram))

BelowHalf(pgram, peak) == {k \in GridIndex : 2 * pgram[k] < peak}

\* C8 as stated: with p the first index at the peak power, if some index
\* below p and some index above p have less than half the peak power, FWHM is
\* the frequency of the nearest such index above p minus that of the nearest
\* below p; FWHM is 0 only when one side has no such index; FWHM is never
\* negative.
C8_FwhmBetweenNearestHalfPoints ==
    fn = "pgram" =>
        LET p == PeakIndex(arg.pgram, ret.maxpgram)
            lo == {k \in BelowHalf(arg.pgram, ret.maxpgram) : k < p}
            hi == {k \in BelowHalf(arg.pgram, ret.maxpgram) : k > p}
        IN /\ (lo # {} /\ hi # {}) => ret.fwhm = freq(SetMin(hi)) - freq(SetMax(lo))
           /\ ret.fwhm = 0 => (lo = {} \/ hi = {})
           /\ ret.fwhm >= 0

MagAtPeakWithZeroImpact ==
    arg.params.umin.n = 0 /\ arg.t = arg.params.Tmax

WithoutTrailingSlash(d) ==
    IF d # <<>> /\ d[Len(d)] = "/" THEN SubSeq(d, 1, Len(d) - 1) ELSE d

IsPrefix(a, b) == Len(a) <= Len(b) /\ SubSeq(b, 1, Len(a)) = a

\* C11 as stated: for an existing base directory, written with or without a
\* trailing "/", the cache path of (year, n, field, dat_type) is the base
\* directory without its trailing slash, then /year/, the lower-cased field,
\* "-", the zero-padded number, "/" and dat_type.dat; it lies under the base
\* directory.
C11_CachePathLayout ==
    (fn = "get_local_filepath" /\ ret.ok) =>
        LET base == WithoutTrailingSlash(arg.datadir) IN
        /\ ret.path = base \o <<"/">> \o str(arg.year) \o <<"/">>
                        \o str_lower(arg.field) \o <<"-">>
                        \o padded_n(arg.n, arg.year).s \o <<"/">>
                        \o <<arg.dat_type>> \o <<".dat">>
        /\ IsPrefix(base \o <<"/">>, ret.path)

====
